---- MODULE Spec2Model ----
(***************************************************************************)
(* The tenant-scoped conversation-to-deal state machine of the CRM         *)
(* backend: the /simulate handler of app/main.py over the contacts, deals  *)
(* and messages tables of app/models.py.  Every db.commit() of the handler *)
(* ends one transaction, so each action below is one query or one commit   *)
(* of one in-flight request, and requests interleave between them.         *)
(***************************************************************************)
EXTENDS Integers, Sequences, FiniteSets, TLC

\* ------------------------------------------------------------------ bounds
\* Requests started in one behaviour.
MaxReqs == 2

\* The threads of the server's pool that run simulate(): two requests, at
\* most, are in flight at once.
Slots == {1, 2}

\* ------------------------------------------------------------ text (str)
\* A Python str is a sequence of one-character strings; "U+2019" stands for
\* the single character RIGHT SINGLE QUOTATION MARK.
UPPER == <<"A","B","C","D","E","F","G","H","I","J","K","L","M",
           "N","O","P","Q","R","S","T","U","V","W","X","Y","Z">>
LOWER == <<"a","b","c","d","e","f","g","h","i","j","k","l","m",
           "n","o","p","q","r","s","t","u","v","w","x","y","z">>

\* str.lower() on one character.
LowerChar(c) ==
    IF \E i \in DOMAIN UPPER : UPPER[i] = c
    THEN LOWER[CHOOSE i \in DOMAIN UPPER : UPPER[i] = c]
    ELSE c

\* str.lower()
Lower(s) == [i \in DOMAIN s |-> LowerChar(s[i])]

\* `sub in s` on str
Contains(sub, s) ==
    \E i \in 1..(Len(s) - Len(sub) + 1) : SubSeq(s, i, i + Len(sub) - 1) = sub

\* The keywords /simulate looks for.
KwPrice == <<"p","r","i","c","e">>
KwRate == <<"r","a","t","e">>

\* The purchase-intent keywords of the reply generator.
PurchaseIntentKeywords ==
    { KwPrice, <<"c","o","s","t">>, KwRate, <<"k","i","t","n","a">>,
      <<"s","u","i","t">>, <<"o","r","d","e","r">>, <<"c","o","d">>,
      <<"d","e","l","i","v","e","r","y">> }

\* Whether the lowercased text holds a purchase-intent keyword.
HasPurchaseIntent(text) ==
    \E k \in PurchaseIntentKeywords : Contains(k, Lower(text))

\* The two replies of /simulate.
ReplyQualified ==
    <<"S","h","a","r","e"," ","y","o","u","r"," ","c","i","t","y"," ","+"," ",
      "b","u","d","g","e","t"," ","a","n","d"," ","I","U+2019","l","l"," ",
      "f","i","n","a","l","i","z","e"," ","t","h","e"," ","o","r","d","e","r",".">>
ReplyThanks ==
    <<"T","h","a","n","k","s","!"," ","S","h","a","r","e"," ","y","o","u","r"," ",
      "c","i","t","y"," ","+"," ","b","u","d","g","e","t"," ","s","o"," ","I"," ",
      "c","a","n"," ","g","u","i","d","e"," ","y","o","u",".">>

\* ------------------------------------------------------------ input sets
\* Python None.
None == "<None>"
\* Python truthiness of an Optional[str].
Truthy(x) == x # None /\ x # ""

Tenants == {1, 2}
\* user.tenant_id None (the superadmin): tenant ids start at 1.
NoTenant == 0

\* (tenant_id, channel, channel_user_id), the external identity key: one
\* sender known to tenant 1 on two channels, and to tenant 2 on one of them.
Identities ==
    { <<1, "whatsapp", "923001234567">>, <<2, "whatsapp", "923001234567">>,
      <<1, "instagram", "923001234567">> }

\* What a sender writes: a text with a keyword of simulate(), one with a
\* keyword of the reply generator only, and one with none; the first comes
\* without the sender's name, the others with two different names.
Inbound ==
    { [text |-> <<"P","r","i","c","e","?">>, contact_name |-> None],
      [text |-> <<"c","o","s","t">>, contact_name |-> "Sara"],
      [text |-> <<"o","k">>, contact_name |-> "Ali"] }

Stages == {"new", "qualified", "order", "closed"}
Statuses == {"open", "closed"}

\* SimulateIn, with the actor's tenant_id.
Payloads ==
    { [tenant_id |-> k[1], channel |-> k[2], channel_user_id |-> k[3],
       text |-> m.text, contact_name |-> m.contact_name] :
          k \in Identities, m \in Inbound }

\* SimulateIn from the superadmin, whose tenant_id is None.
SuperadminPayloads ==
    { [tenant_id |-> NoTenant, channel |-> "whatsapp",
       channel_user_id |-> "923001234567",
       text |-> <<"P","r","i","c","e","?">>, contact_name |-> None] }

\* simulate() without its test of the actor's tenant.
TenantCheckSkipped(tenant_id) == FALSE
\* user.tenant_id is None
TenantIsNone(tenant_id) == tenant_id = NoTenant

\* The order new < qualified < order < closed of the stage pipeline.
Rank(stage) ==
    CASE stage = "new" -> 0
      [] stage = "qualified" -> 1
      [] stage = "order" -> 2
      [] stage = "closed" -> 3
      [] OTHER -> 0

\* --------------------------------------------------------------- state
VARIABLES
    contacts,    \* table contacts: row i has id i
    deals,       \* table deals: row i has id i
    messages,    \* table messages: row i has id i
    pc,          \* per slot: where its request stands in simulate()
    req,         \* per slot: the payload and the actor's tenant_id
    loc,         \* per slot: the ORM objects the request holds
    resp,        \* per slot: the HTTP response
    hist,        \* per slot, history: what this request has committed so far
    nstarted,    \* history: requests started so far
    overlapped,  \* history: some request started while another was in flight
    handled,     \* history: per identity, requests answered with 200
    resolved,    \* history: per identity, the ids the last answered request held
    agent,       \* one call of run_agent(): its arguments, position and result
    router,      \* one call of extract_routing_key(): payload, position, result
    tenants,     \* table tenants: row i has id i
    users,       \* table users: row i has id i
    otps,        \* table otps: row i has id i
    apc,         \* per slot: where its /auth request stands
    areq,        \* per slot: the /auth request
    aloc,        \* per slot: the ids of the rows the /auth request holds
    aresp,       \* per slot: the HTTP status of the last /auth response
    astarted,    \* history: /auth requests started so far
    consumed     \* history: per OTP id, the verify requests it let succeed

vars == <<contacts, deals, messages, pc, req, loc, resp, hist, nstarted,
          overlapped, handled, resolved, agent, router, tenants, users, otps,
          apc, areq, aloc, aresp, astarted, consumed>>

\* The variables of the /auth handlers.
authVars == <<tenants, users, otps, apc, areq, aloc, aresp, astarted, consumed>>

\* The identity key of a payload.
IdentityOf(p) == <<p.tenant_id, p.channel, p.channel_user_id>>

IdleReq ==
    [tenant_id |-> NoTenant, channel |-> "", channel_user_id |-> "",
     text |-> <<>>, contact_name |-> None]
NoLoc ==
    [contact_id |-> 0, contact_name |-> None, deal_id |-> 0,
     deal_stage |-> None, reply |-> <<>>]
NoResp == [status |-> 0, reply |-> <<>>, stage |-> None]
NoHist == [written |-> {}, in_id |-> 0]
NoIds == [contact_id |-> 0, deal_id |-> 0]
\* No call of the function is under way.
NoCall == [pc |-> "idle"]

\* The user on_startup() creates: no tenant, no phone, verified.
Superadmin ==
    [tenant_id |-> NoTenant, email |-> "admin@crm.local", phone |-> None,
     role |-> "superadmin", email_verified |-> TRUE, phone_verified |-> TRUE,
     is_active |-> TRUE]

\* An /auth request that has not arrived, and the ids it holds.
IdleAuth ==
    [op |-> "", email |-> "", company_name |-> "", phone |-> "", code |-> ""]
NoAuthIds == [tenant_id |-> 0, user_id |-> 0, otp_id |-> 0]

\* No /auth request yet.
NoAuthRequests ==
    /\ apc = [r \in Slots |-> "idle"]
    /\ areq = [r \in Slots |-> IdleAuth]
    /\ aloc = [r \in Slots |-> NoAuthIds]
    /\ aresp = [r \in Slots |-> 0]
    /\ astarted = 0

\* A fresh database and no /auth request: what the /simulate handler and the
\* two pure functions are studied on.
NoAuth ==
    /\ tenants = <<>> /\ users = <<Superadmin>> /\ otps = <<>>
    /\ consumed = <<>>
    /\ NoAuthRequests

Free(r) == pc[r] \in {"idle", "done", "failed", "rejected"}
InFlight(r) == ~Free(r)

\* ------------------------------------------------------------- queries
\* db.query(Contact).filter(tenant_id).filter(channel).filter(channel_user_id)
ContactIdsNoTenant(rows, tenant_id, channel, channel_user_id) ==
    { i \in DOMAIN rows :
        /\ rows[i].channel = channel
        /\ rows[i].channel_user_id = channel_user_id }
ContactIds(rows, tenant_id, channel, channel_user_id) ==
    { i \in DOMAIN rows :
        /\ rows[i].tenant_id = tenant_id
        /\ rows[i].channel = channel
        /\ rows[i].channel_user_id = channel_user_id }

\* .first() without order_by: the row with the lowest id; 0 stands for None.
First(ids) == IF ids = {} THEN 0 ELSE CHOOSE i \in ids : \A j \in ids : i <= j

\* .order_by(id).first(): the oldest row instead of the newest.
Oldest(ids) == IF ids = {} THEN 0 ELSE CHOOSE i \in ids : \A j \in ids : i <= j

\* .order_by(desc(id)).first(); 0 stands for None.
Newest(ids) == IF ids = {} THEN 0 ELSE CHOOSE i \in ids : \A j \in ids : i >= j

\* The deal query without its filter on status.
DealIdsAnyStatus(rows, tenant_id, contact_id) ==
    { i \in DOMAIN rows :
        /\ rows[i].tenant_id = tenant_id
        /\ rows[i].contact_id = contact_id }

\* db.query(Deal).filter(tenant_id).filter(contact_id).filter(status == "open")
OpenDealIdsWrongColumn(rows, tenant_id, contact_id) ==
    { i \in DOMAIN rows :
        /\ rows[i].tenant_id = tenant_id
        /\ rows[i].contact_id = contact_id
        /\ rows[i].stage = "open" }
OpenDealIds(rows, tenant_id, contact_id) ==
    { i \in DOMAIN rows :
        /\ rows[i].tenant_id = tenant_id
        /\ rows[i].contact_id = contact_id
        /\ rows[i].status = "open" }

\* UniqueConstraint("tenant_id", "channel", "channel_user_id"): whether the
\* table accepts the new row.
uq_contact_missing(rows, row) == TRUE
uq_contact_channel_user(rows, row) ==
    \A i \in DOMAIN rows :
        ~ /\ rows[i].tenant_id = row.tenant_id
          /\ rows[i].channel = row.channel
          /\ rows[i].channel_user_id = row.channel_user_id

\* Contact(...) as simulate() builds it.
NewContact(p) ==
    [tenant_id |-> p.tenant_id, channel |-> p.channel,
     channel_user_id |-> p.channel_user_id, contact_name |-> p.contact_name,
     phone |-> IF p.channel = "whatsapp" THEN p.channel_user_id ELSE None]

\* Message(...) as simulate() builds it.
NewMessageAlwaysIn(p, contact_id, direction, text) ==
    [tenant_id |-> p.tenant_id, contact_id |-> contact_id,
     channel |-> p.channel, direction |-> "in", text |-> text]
NewMessage(p, contact_id, direction, text) ==
    [tenant_id |-> p.tenant_id, contact_id |-> contact_id,
     channel |-> p.channel, direction |-> direction, text |-> text]

\* Deal(...) as simulate() builds it.
NewDeal(p, contact_id) ==
    [tenant_id |-> p.tenant_id, contact_id |-> contact_id,
     stage |-> "new", status |-> "open"]

\* db.add(row); db.commit() on the messages table.
OverwriteLastMessage(rows, row) ==
    IF rows = <<>> THEN <<row>> ELSE [rows EXCEPT ![Len(rows)] = row]
AddMessage(rows, row) == Append(rows, row)

\* The keyword test of simulate().
SimKeyword(text) ==
    Contains(KwPrice, Lower(text)) \/ Contains(KwRate, Lower(text))

\* The reply simulate() picks.
SimReply(text) == IF SimKeyword(text) THEN ReplyQualified ELSE ReplyThanks

\* The value simulate() assigns to deal.stage, from the stage the ORM object
\* holds.
SimStageResetsToNew(loaded, text) ==
    IF SimKeyword(text) THEN "qualified" ELSE "new"
SimStage(loaded, text) ==
    IF SimKeyword(text) THEN "qualified"
    ELSE IF loaded # None /\ loaded # "" THEN loaded ELSE "new"

\* ---------------------------------------------------------------- Init
\* The store is a database file that outlives the process: the handler may
\* find it empty, or find a contact with one deal: an open deal further down
\* the pipeline, or a deal that was closed.
SeedContact ==
    [tenant_id |-> 1, channel |-> "whatsapp", channel_user_id |-> "923001234567",
     contact_name |-> None, phone |-> "923001234567"]
SeedDeals ==
    { [tenant_id |-> 1, contact_id |-> 1, stage |-> "order", status |-> "open"],
      [tenant_id |-> 1, contact_id |-> 1, stage |-> "closed", status |-> "closed"] }

\* No request yet, and an empty ledger.
InitRequests ==
    /\ messages = <<>>
    /\ pc = [r \in Slots |-> "idle"]
    /\ req = [r \in Slots |-> IdleReq]
    /\ loc = [r \in Slots |-> NoLoc]
    /\ resp = [r \in Slots |-> NoResp]
    /\ hist = [r \in Slots |-> NoHist]
    /\ nstarted = 0
    /\ overlapped = FALSE
    /\ handled = [k \in Identities |-> 0]
    /\ resolved = [k \in Identities |-> NoIds]

\* A fresh database: on_startup() has created the empty tables.
InitFresh ==
    /\ contacts = <<>> /\ deals = <<>>
    /\ InitRequests
    /\ agent = NoCall /\ router = NoCall
    /\ NoAuth

\* The database as the handler may find it: fresh, or with the rows above.
Init ==
    /\ \/ contacts = <<>> /\ deals = <<>>
       \/ contacts = <<SeedContact>> /\ \E d \in SeedDeals : deals = <<d>>
    /\ InitRequests
    /\ agent = NoCall /\ router = NoCall
    /\ NoAuth

\* ------------------------------------------------------------- actions
\* A request arrives in a free slot; the slot keeps the last response only.
Arrive(r, p) ==
    /\ Free(r)
    /\ nstarted < MaxReqs
    /\ nstarted' = nstarted + 1
    /\ req' = [req EXCEPT ![r] = p]
    /\ hist' = [hist EXCEPT ![r] = NoHist]
    /\ overlapped' = (overlapped \/ \E o \in Slots \ {r} : InFlight(o))

\* simulate(), user.tenant_id is None: HTTP 400 before any query.
SimulateReject(r) ==
    /\ \E p \in Payloads \cup SuperadminPayloads : TenantIsNone(p.tenant_id)
    /\ Free(r)
    /\ nstarted < MaxReqs
    /\ nstarted' = nstarted + 1
    /\ pc' = [pc EXCEPT ![r] = "rejected"]
    /\ resp' = [resp EXCEPT ![r] = [NoResp EXCEPT !.status = 400]]
    /\ UNCHANGED <<agent, router, authVars, contacts, deals, messages, req, loc, hist, overlapped,
                   handled, resolved>>

\* simulate() up to the contact query.
SimulateStart(r) ==
    \E p \in Payloads \cup SuperadminPayloads :
        LET id == First(ContactIds(contacts, p.tenant_id, p.channel,
                                   p.channel_user_id))
            name == IF id = 0 THEN None ELSE contacts[id].contact_name
        IN  /\ ~TenantIsNone(p.tenant_id)
            /\ Arrive(r, p)
            /\ loc' = [loc EXCEPT ![r] =
                          [NoLoc EXCEPT !.contact_id = id, !.contact_name = name]]
            /\ pc' = [pc EXCEPT ![r] =
                          IF id = 0 THEN "create_contact"
                          ELSE IF Truthy(p.contact_name) /\ ~Truthy(name)
                               THEN "backfill_name"
                               ELSE "store_inbound"]
            /\ resp' = [resp EXCEPT ![r] = NoResp]
            /\ UNCHANGED <<agent, router, authVars, contacts, deals, messages, handled, resolved>>

\* if not contact: db.add(contact); db.commit(); db.refresh(contact)
CreateContact(r) ==
    /\ pc[r] = "create_contact"
    /\ uq_contact_channel_user(contacts, NewContact(req[r]))
    /\ contacts' = Append(contacts, NewContact(req[r]))
    /\ loc' = [loc EXCEPT ![r].contact_id = Len(contacts) + 1,
                          ![r].contact_name = req[r].contact_name]
    /\ hist' = [hist EXCEPT ![r].written = @ \cup {"contact"}]
    /\ pc' = [pc EXCEPT ![r] = "store_inbound"]
    /\ UNCHANGED <<agent, router, authVars, deals, messages, req, resp, nstarted, overlapped, handled,
                   resolved>>

\* The same commit when another request has inserted the identity since the
\* query: IntegrityError, which nothing catches; the request ends with 500.
CreateContactConflict(r) ==
    /\ pc[r] = "create_contact"
    /\ ~uq_contact_channel_user(contacts, NewContact(req[r]))
    /\ pc' = [pc EXCEPT ![r] = "failed"]
    /\ resp' = [resp EXCEPT ![r] = [NoResp EXCEPT !.status = 500]]
    /\ req' = [req EXCEPT ![r] = IdleReq]
    /\ loc' = [loc EXCEPT ![r] = NoLoc]
    /\ UNCHANGED <<agent, router, authVars, contacts, deals, messages, hist, nstarted, overlapped,
                   handled, resolved>>

\* else: contact.contact_name = payload.contact_name; db.commit()
BackfillName(r) ==
    /\ pc[r] = "backfill_name"
    /\ contacts' = [contacts EXCEPT ![loc[r].contact_id].contact_name =
                                        req[r].contact_name]
    /\ loc' = [loc EXCEPT ![r].contact_name = req[r].contact_name]
    /\ hist' = [hist EXCEPT ![r].written = @ \cup {"name"}]
    /\ pc' = [pc EXCEPT ![r] = "store_inbound"]
    /\ UNCHANGED <<agent, router, authVars, deals, messages, req, resp, nstarted, overlapped, handled,
                   resolved>>

\* Store inbound message: db.add(msg); db.commit()
StoreInbound(r) ==
    /\ pc[r] = "store_inbound"
    /\ messages' = AddMessage(messages,
                       NewMessage(req[r], loc[r].contact_id, "in", req[r].text))
    /\ hist' = [hist EXCEPT ![r].written = @ \cup {"in"},
                            ![r].in_id = Len(messages) + 1]
    /\ pc' = [pc EXCEPT ![r] = "find_deal"]
    /\ UNCHANGED <<agent, router, authVars, contacts, deals, req, loc, resp, nstarted, overlapped,
                   handled, resolved>>

\* The open-deal query.
FindDeal(r) ==
    LET id == Newest(OpenDealIds(deals, req[r].tenant_id, loc[r].contact_id))
    IN  /\ pc[r] = "find_deal"
        /\ loc' = [loc EXCEPT ![r].deal_id = id,
                              ![r].deal_stage =
                                  IF id = 0 THEN None ELSE deals[id].stage]
        /\ pc' = [pc EXCEPT ![r] =
                      IF id = 0 THEN "create_deal" ELSE "update_stage"]
        /\ UNCHANGED <<agent, router, authVars, contacts, deals, messages, req, resp, hist, nstarted,
                       overlapped, handled, resolved>>

\* if not deal: db.add(deal); db.commit(); db.refresh(deal)
CreateDeal(r) ==
    /\ pc[r] = "create_deal"
    /\ deals' = Append(deals, NewDeal(req[r], loc[r].contact_id))
    /\ loc' = [loc EXCEPT ![r].deal_id = Len(deals) + 1,
                          ![r].deal_stage = "new"]
    /\ hist' = [hist EXCEPT ![r].written = @ \cup {"deal"}]
    /\ pc' = [pc EXCEPT ![r] = "update_stage"]
    /\ UNCHANGED <<agent, router, authVars, contacts, messages, req, resp, nstarted, overlapped, handled,
                   resolved>>

\* Simple bot reply + stage; db.commit().  The ORM writes the column only
\* when the assigned value differs from the one the object was loaded with.
UpdateStage(r) ==
    LET stage == SimStage(loc[r].deal_stage, req[r].text)
        dirty == stage # loc[r].deal_stage
    IN  /\ pc[r] = "update_stage"
        /\ deals' = IF dirty
                    THEN [deals EXCEPT ![loc[r].deal_id].stage = stage]
                    ELSE deals
        /\ loc' = [loc EXCEPT ![r].deal_stage = stage,
                              ![r].reply = SimReply(req[r].text)]
        /\ hist' = [hist EXCEPT ![r].written =
                                    IF dirty THEN @ \cup {"stage"} ELSE @]
        /\ pc' = [pc EXCEPT ![r] = "store_outbound"]
        /\ UNCHANGED <<agent, router, authVars, contacts, messages, req, resp, nstarted, overlapped,
                       handled, resolved>>

\* Store outbound message: db.add(out_msg); db.commit(); return.  deal.stage
\* is read again after the commit, so the response holds the row's stage.
StoreOutbound(r) ==
    /\ pc[r] = "store_outbound"
    /\ messages' = AddMessage(messages,
                       NewMessage(req[r], loc[r].contact_id, "out", loc[r].reply))
    /\ resp' = [resp EXCEPT ![r] =
                    [status |-> 200, reply |-> loc[r].reply,
                     stage |-> deals[loc[r].deal_id].stage]]
    /\ handled' = [handled EXCEPT ![IdentityOf(req[r])] = @ + 1]
    /\ resolved' = [resolved EXCEPT ![IdentityOf(req[r])] =
                        [contact_id |-> loc[r].contact_id,
                         deal_id |-> loc[r].deal_id]]
    /\ pc' = [pc EXCEPT ![r] = "done"]
    /\ req' = [req EXCEPT ![r] = IdleReq]
    /\ loc' = [loc EXCEPT ![r] = NoLoc]
    /\ hist' = [hist EXCEPT ![r] = NoHist]
    /\ UNCHANGED <<agent, router, authVars, contacts, deals, nstarted, overlapped>>

Next ==
    \E r \in Slots :
        \/ SimulateReject(r)
        \/ SimulateStart(r)
        \/ CreateContact(r)
        \/ CreateContactConflict(r)
        \/ BackfillName(r)
        \/ StoreInbound(r)
        \/ FindDeal(r)
        \/ CreateDeal(r)
        \/ UpdateStage(r)
        \/ StoreOutbound(r)

Spec == Init /\ [][Next]_vars

\* The same handler on a database that starts empty.
FreshSpec == InitFresh /\ [][Next]_vars

\* ===================================================================
\* Properties
\* ===================================================================
\* The slot whose request takes this step.
Acting(r) == pc'[r] # pc[r]

\* The tenant of the request that takes this step in slot r.
ActorTenant(r) ==
    IF req[r] = IdleReq THEN req'[r].tenant_id ELSE req[r].tenant_id

ContactIdentity(i) ==
    <<contacts[i].tenant_id, contacts[i].channel, contacts[i].channel_user_id>>

\* C1: at most one Deal with status=open per (tenant_id, contact_id), in
\* every reachable state, concurrent requests for one identity included.
C1_AtMostOneOpenDeal ==
    \A i, j \in DOMAIN deals :
        ( /\ deals[i].status = "open" /\ deals[j].status = "open"
          /\ deals[i].tenant_id = deals[j].tenant_id
          /\ deals[i].contact_id = deals[j].contact_id ) => i = j

\* C2: the writes of one inbound message commit together or not at all: no
\* request is ever part-way through with some of its writes already in the
\* store (the outbound message is always the last write of a cycle).
C2_AllWritesCommitTogether ==
    \A r \in Slots : InFlight(r) => hist[r].written = {}

\* The rows of tenant t, with their ids.
RowsOfTenant(t) ==
    << { <<i, contacts[i]>> : i \in { j \in DOMAIN contacts : contacts[j].tenant_id = t } },
       { <<i, deals[i]>> : i \in { j \in DOMAIN deals : deals[j].tenant_id = t } },
       { <<i, messages[i]>> : i \in { j \in DOMAIN messages : messages[j].tenant_id = t } } >>

\* C3: a step of a request of tenant T changes and creates rows of tenant T
\* only: the rows of every other tenant are the same before and after it.
C3_TenantIsolation ==
    [][ \A t \in Tenants :
          (\A r \in Slots : Acting(r) => ActorTenant(r) # t)
              => RowsOfTenant(t)' = RowsOfTenant(t) ]_vars

\* A request of tenant 2 has written its rows beside rows of tenant 1.
C3_Witness ==
    /\ \E i \in DOMAIN contacts : contacts[i].tenant_id = 1
    /\ \E i \in DOMAIN contacts : contacts[i].tenant_id = 2
    /\ \E i \in DOMAIN deals : deals[i].tenant_id = 2
    /\ \E i \in DOMAIN messages :
          messages[i].tenant_id = 2 /\ messages[i].direction = "out"

\* C4: the same (channel, channel_user_id) under two tenants gives two
\* distinct Contact rows, one per tenant, and no request holds a Contact or
\* Deal of a tenant other than its own.
C4_NoCrossTenantMerge ==
    /\ \A r \in Slots :
          /\ loc[r].contact_id # 0 =>
                ContactIdentity(loc[r].contact_id) = IdentityOf(req[r])
          /\ loc[r].deal_id # 0 =>
                /\ deals[loc[r].deal_id].tenant_id = req[r].tenant_id
                /\ deals[loc[r].deal_id].contact_id = loc[r].contact_id
    /\ \A k1, k2 \in Identities :
          ( /\ k1[1] # k2[1] /\ k1[2] = k2[2] /\ k1[3] = k2[3]
            /\ handled[k1] > 0 /\ handled[k2] > 0 )
          => /\ resolved[k1].contact_id # resolved[k2].contact_id
             /\ resolved[k1].deal_id # resolved[k2].deal_id
             /\ ContactIdentity(resolved[k1].contact_id) = k1
             /\ ContactIdentity(resolved[k2].contact_id) = k2
             /\ deals[resolved[k1].deal_id].tenant_id = k1[1]
             /\ deals[resolved[k2].deal_id].tenant_id = k2[1]

\* Both tenants have answered a message of the same (channel, user id).
C4_Witness ==
    \E k1, k2 \in Identities :
        /\ k1[1] # k2[1] /\ k1[2] = k2[2] /\ k1[3] = k2[3]
        /\ handled[k1] > 0 /\ handled[k2] > 0

\* C5: no two Contact rows share (tenant_id, channel, channel_user_id).
C5_ContactKeyUnique ==
    \A i, j \in DOMAIN contacts :
        ContactIdentity(i) = ContactIdentity(j) => i = j

\* Two requests raced to create one identity and the table refused one.
C5_Witness ==
    /\ \E r \in Slots : pc[r] = "failed"
    /\ Len(contacts) >= 1

\* C6: of two successive requests of one identity (the second starts after
\* the first was answered) the second holds the first's Contact, holds the
\* first's Deal if that is still open, and creates neither.
C6_IdempotentResolution ==
    ~overlapped =>
        \A r \in Slots :
            LET first == resolved[IdentityOf(req[r])]
            IN  (InFlight(r) /\ first.contact_id # 0) =>
                  /\ pc[r] \notin {"create_contact", "create_deal"}
                  /\ hist[r].written \cap {"contact", "deal"} = {}
                  /\ loc[r].contact_id = first.contact_id
                  /\ ( /\ pc[r] \in {"update_stage", "store_outbound"}
                       /\ deals[first.deal_id].status = "open" )
                     => loc[r].deal_id = first.deal_id

\* The second of two successive requests of one identity has resolved.
C6_Witness ==
    /\ ~overlapped
    /\ \E r \in Slots :
          /\ pc[r] = "store_outbound"
          /\ resolved[IdentityOf(req[r])].contact_id # 0

\* The later of two stages in the order of the pipeline.
LaterStage(a, b) == IF Rank(a) >= Rank(b) THEN a ELSE b

\* The stage a message text suggests to simulate().
SuggestedStage(text) == IF SimKeyword(text) THEN "qualified" ELSE "new"

\* C7: handling a message never moves an open Deal's stage backwards in
\* new < qualified < order < closed: the stage after the stage update is the
\* later of the Deal's stage and the suggested stage.
C7_StageNeverMovesBack ==
    [][ /\ \A d \in DOMAIN deals :
              deals[d].status = "open" =>
                  Rank(deals'[d].stage) >= Rank(deals[d].stage)
        /\ \A r \in Slots :
              (pc[r] = "update_stage" /\ Acting(r)) =>
                  deals'[loc[r].deal_id].stage =
                      LaterStage(deals[loc[r].deal_id].stage,
                                 SuggestedStage(req[r].text)) ]_vars

\* C8: a step of a request whose text holds no purchase-intent keyword leaves
\* every open Deal that is at stage qualified at qualified, and such a request
\* answers with qualified when its Deal was qualified.
C8_QualifiedNotRegressed ==
    [][ \A r \in Slots :
          (Acting(r) /\ InFlight(r) /\ ~HasPurchaseIntent(req[r].text)) =>
              /\ \A d \in DOMAIN deals :
                    (deals[d].status = "open" /\ deals[d].stage = "qualified")
                        => deals'[d].stage = "qualified"
              /\ ( /\ pc'[r] = "done"
                   /\ deals[loc[r].deal_id].stage = "qualified" )
                 => resp'[r].stage = "qualified" ]_vars

\* A request without a keyword has passed the stage update of a qualified
\* open Deal.
C8_Witness ==
    \E r \in Slots :
        /\ pc[r] = "store_outbound"
        /\ ~HasPurchaseIntent(req[r].text)
        /\ deals[loc[r].deal_id].status = "open"
        /\ deals[loc[r].deal_id].stage = "qualified"

\* The ids of the Message rows of identity k, through their Contact.
MessageIdsOf(k) ==
    { i \in DOMAIN messages : ContactIdentity(messages[i].contact_id) = k }

\* The requests of identity k whose inbound Message is stored.
InboundStored(k) ==
    { r \in Slots : InFlight(r) /\ IdentityOf(req[r]) = k
                    /\ "in" \in hist[r].written }

\* Each answered request of identity k has two rows in the ledger; when no
\* two requests overlapped, the rows of k alternate in, out.
LedgerShape ==
    \A k \in Identities :
        /\ Cardinality(MessageIdsOf(k)) =
              2 * handled[k] + Cardinality(InboundStored(k))
        /\ ~overlapped =>
              \A i \in MessageIdsOf(k) :
                  messages[i].direction =
                      IF Cardinality({ j \in MessageIdsOf(k) : j <= i }) % 2 = 1
                      THEN "in" ELSE "out"

\* C9: a request appends its inbound Message (direction in, the inbound
\* text), later its outbound Message (direction out, the reply it returns),
\* both with its tenant, contact and channel, and no other Message; so n
\* sequential messages of one identity leave 2n rows alternating in, out.
C9_InboundThenOutbound ==
    [][ /\ \A r \in Slots :
              /\ (pc[r] = "store_inbound" /\ Acting(r)) =>
                    messages' = Append(messages,
                        [tenant_id |-> req[r].tenant_id,
                         contact_id |-> loc[r].contact_id,
                         channel |-> req[r].channel,
                         direction |-> "in", text |-> req[r].text])
              /\ (pc[r] = "store_outbound" /\ Acting(r)) =>
                    /\ resp'[r].status = 200
                    /\ messages' = Append(messages,
                          [messages[hist[r].in_id] EXCEPT
                              !.direction = "out", !.text = resp'[r].reply])
                    /\ messages[hist[r].in_id].direction = "in"
                    /\ messages[hist[r].in_id].text = req[r].text
              /\ (Acting(r) /\ pc[r] \notin {"store_inbound", "store_outbound"})
                    => messages' = messages
        /\ LedgerShape' ]_vars

\* Two sequential requests of one identity have been answered.
C9_Witness ==
    /\ ~overlapped
    /\ \E k \in Identities : handled[k] = 2 /\ Cardinality(MessageIdsOf(k)) = 4

\* C10: the Message ledger is append-only: every step keeps every existing
\* row as it is, and removes none.
C10_LedgerAppendOnly ==
    [][ /\ Len(messages') >= Len(messages)
        /\ \A i \in DOMAIN messages : messages'[i] = messages[i] ]_vars

\* The ledger holds rows of two requests, the outbound row written last.
C10_Witness ==
    /\ Len(messages) = 4
    /\ messages[4].direction = "out"

\* C11: every /simulate request of an actor with a tenant is answered with
\* success under every interleaving: a request that loses the race to create
\* a row reuses the winner's row, and no request ends with a server error.
C11_NoFailureSurfaced ==
    \A r \in Slots : pc[r] # "failed" /\ resp[r].status \in {0, 200, 400}

\* ===================================================================
\* app/agent.py: the reply generator
\* ===================================================================
\* ord(c) of the characters written as a code point; every other character
\* of the model is a printable ASCII character.
CodePoints ==
    [c \in {"U+0009", "U+000A", "U+00A0", "U+00E9", "U+2013", "U+2014",
            "U+2018", "U+2019", "U+201C", "U+201D"} |->
        CASE c = "U+0009" -> 9
          [] c = "U+000A" -> 10
          [] c = "U+00A0" -> 160
          [] c = "U+00E9" -> 233
          [] c = "U+2013" -> 8211
          [] c = "U+2014" -> 8212
          [] c = "U+2018" -> 8216
          [] c = "U+2019" -> 8217
          [] c = "U+201C" -> 8220
          [] c = "U+201D" -> 8221]

\* What str.encode("ascii", errors="ignore") keeps: code points below 128.
IsAscii(c) == c \in DOMAIN CodePoints => CodePoints[c] < 128

\* What \s matches among the ASCII characters of the model.
IsSpace(c) == c \in {" ", "U+0009", "U+000A"}

\* str.replace(old, new) for one-character old and new.
Replace(s, old, new) == [i \in DOMAIN s |-> IF s[i] = old THEN new ELSE s[i]]

\* text.encode("ascii", errors="ignore").decode("ascii", errors="ignore")
EncodeAsciiIgnore(s) == SelectSeq(s, IsAscii)

\* re.sub(r"\s+", " ", text): each maximal run of whitespace becomes a space.
RECURSIVE SubSpaces(_)
SubSpaces(s) ==
    IF s = <<>> THEN <<>>
    ELSE LET n == Len(s)
             init == SubSpaces(SubSeq(s, 1, n - 1))
         IN  IF ~IsSpace(s[n]) THEN Append(init, s[n])
             ELSE IF n > 1 /\ IsSpace(s[n - 1]) THEN init
             ELSE Append(init, " ")

\* str.strip()
RECURSIVE Strip(_)
Strip(s) ==
    IF s = <<>> THEN <<>>
    ELSE IF IsSpace(s[1]) THEN Strip(Tail(s))
    ELSE IF IsSpace(s[Len(s)]) THEN Strip(SubSeq(s, 1, Len(s) - 1))
    ELSE s

\* Python None where a str is expected.
NoText == <<None>>

\* _sanitize_ascii() that drops the smart quotes and dashes with the other
\* non-ASCII characters.
SanitizeWithoutReplace(text) ==
    IF text = NoText \/ text = <<>> THEN <<>>
    ELSE Strip(SubSpaces(EncodeAsciiIgnore(text)))

\* _sanitize_ascii()
_sanitize_ascii(text) ==
    IF text = NoText \/ text = <<>> THEN <<>>
    ELSE LET replaced ==
                 Replace(Replace(Replace(Replace(Replace(Replace(text,
                     "U+2019", "'"), "U+2018", "'"), "U+201C", "\""),
                     "U+201D", "\""), "U+2014", "-"), "U+2013", "-")
         IN  Strip(SubSpaces(EncodeAsciiIgnore(replaced)))

\* message_text = message_text or ""
MessageText(message_text) ==
    IF message_text = NoText THEN <<>> ELSE message_text

\* The rule-based stage of run_agent() when the keywords are looked for in
\* the text as it was sent.
RuleStageCaseSensitive(message_text) ==
    IF \E k \in PurchaseIntentKeywords : Contains(k, MessageText(message_text))
    THEN "qualified" ELSE "new"

\* The rule-based stage of run_agent().
RuleStage(message_text) ==
    IF \E k \in PurchaseIntentKeywords :
           Contains(k, Lower(MessageText(message_text)))
    THEN "qualified" ELSE "new"

\* default_reply of run_agent(): all ASCII.
default_reply ==
    <<"S","h","a","r","e"," ","y","o","u","r"," ","c","i","t","y"," ","+"," ",
      "b","u","d","g","e","t"," ","a","n","d"," ","I","'","l","l"," ",
      "f","i","n","a","l","i","z","e"," ","t","h","e"," ","o","r","d","e","r",".">>

\* The message texts run_agent() is called with: none, empty, with a keyword
\* in lower, mixed and upper case, and without one.
AgentTexts ==
    { NoText, <<>>, <<"P","r","i","c","e","?">>, <<"c","o","s","t">>,
      <<"C","O","D">>, <<"o","k">> }

\* OPENAI_API_KEY in the environment: unset, empty, set.
ApiKeys == {None, "", "sk-test"}

\* What the backend may write as message.content: plain text, text with smart
\* quotes and dashes, with runs of whitespace, with other non-ASCII
\* characters, nothing, and None.
BackendContents ==
    { <<"S","u","r","e","!">>,
      <<" ","I","U+2019","m","U+2014","o","k","U+000A">>,
      <<"U+201C","h","i","U+201D","U+2013","U+2018","x">>,
      <<"a","U+0009"," ","b","U+00E9">>,
      <<"a"," ","U+00A0"," ","b">>,
      <<"U+00E9">>,
      <<>>,
      NoText }

\* How the backend behaves on one chat.completions.create(): it answers,
\* well-formed or with no choice in it, the client raises (timeout, rejected
\* key), or the response never completes (run_agent() sets no deadline for
\* the call).
BackendBehaviours ==
    { [kind |-> "response", choices |-> <<[content |-> c]>>] :
          c \in BackendContents }
    \cup { [kind |-> "response", choices |-> <<>>] }
    \cup { [kind |-> "error", exc |-> e] :
             e \in {"APITimeoutError", "AuthenticationError"} }
    \cup { [kind |-> "stalled"] }

\* run_agent(message_text, contact_name) entered, in one environment.
AgentCalls ==
    { [pc |-> "start", message_text |-> t, contact_name |-> n, api_key |-> k,
       openai |-> o, stage |-> None, backend |-> [kind |-> "none"],
       exc |-> None, raw |-> NoText, reply |-> NoText] :
          t \in AgentTexts, n \in {None, "Ali"}, k \in ApiKeys, o \in BOOLEAN }

\* `except Exception` that catches the timeout only.
CatchesTimeoutOnly(exc) == exc = "APITimeoutError"

\* `except Exception`: every exception of the model derives from Exception.
CatchesException(exc) ==
    exc \in {"OpenAIError", "APITimeoutError", "AuthenticationError",
             "IndexError"}

\* return (_sanitize_ascii(raw), stage)
AgentReturn(a, raw) ==
    [a EXCEPT !.pc = "returned", !.raw = raw, !.reply = _sanitize_ascii(raw)]

\* The variables of the /simulate handler.
simulateVars ==
    <<contacts, deals, messages, pc, req, loc, resp, hist, nstarted, overlapped,
      handled, resolved>>

\* run_agent() up to the test for a configured backend.
AgentStart ==
    /\ agent.pc = "start"
    /\ LET a == [agent EXCEPT !.stage = RuleStage(agent.message_text)]
       IN  agent' = IF ~Truthy(agent.api_key) \/ ~agent.openai
                    THEN AgentReturn(a, default_reply)
                    ELSE [a EXCEPT !.pc = "client"]
    /\ UNCHANGED <<simulateVars, router, authVars>>

\* client = OpenAI(api_key=api_key): it is built, or the constructor raises.
AgentBuildClient ==
    /\ agent.pc = "client"
    /\ \E built \in BOOLEAN :
          agent' = IF built THEN [agent EXCEPT !.pc = "request"]
                   ELSE [agent EXCEPT !.pc = "except", !.exc = "OpenAIError"]
    /\ UNCHANGED <<simulateVars, router, authVars>>

\* client.chat.completions.create(...) sends the request; no timeout is
\* passed to the client or to the call.
AgentSend ==
    /\ agent.pc = "request"
    /\ \E b \in BackendBehaviours :
          agent' = [agent EXCEPT !.pc = "awaiting", !.backend = b]
    /\ UNCHANGED <<simulateVars, router, authVars>>

\* The call returns: reply = resp.choices[0].message.content or
\* default_reply; return.  choices[0] of an empty list raises IndexError.
AgentResponse ==
    /\ agent.pc = "awaiting"
    /\ agent.backend.kind = "response"
    /\ LET choices == agent.backend.choices
           content == choices[1].content
       IN  agent' =
             IF choices = <<>>
             THEN [agent EXCEPT !.pc = "except", !.exc = "IndexError"]
             ELSE AgentReturn(agent,
                      IF content = NoText \/ content = <<>>
                      THEN default_reply ELSE content)
    /\ UNCHANGED <<simulateVars, router, authVars>>

\* The call raises.
AgentBackendError ==
    /\ agent.pc = "awaiting"
    /\ agent.backend.kind = "error"
    /\ agent' = [agent EXCEPT !.pc = "except", !.exc = agent.backend.exc]
    /\ UNCHANGED <<simulateVars, router, authVars>>

\* except Exception: return (_sanitize_ascii(default_reply), stage)
AgentExcept ==
    /\ agent.pc = "except"
    /\ agent' = IF CatchesException(agent.exc)
                THEN AgentReturn(agent, default_reply)
                ELSE [agent EXCEPT !.pc = "raised"]
    /\ UNCHANGED <<simulateVars, router, authVars>>

AgentNext ==
    \/ AgentStart
    \/ AgentBuildClient
    \/ AgentSend
    \/ AgentResponse
    \/ AgentBackendError
    \/ AgentExcept

\* One call of run_agent(), for every argument, environment and backend.
AgentInit ==
    /\ contacts = <<>> /\ deals = <<>>
    /\ InitRequests
    /\ agent \in AgentCalls
    /\ router = NoCall
    /\ NoAuth

AgentSpec == AgentInit /\ [][AgentNext]_vars

\* ------------------------------------------------- properties of run_agent
\* The number of times the character c occurs in s.
Count(s, c) == Cardinality({ i \in DOMAIN s : s[i] = c })

\* The stage the purchase-intent rule gives a message text.
ExpectedStage(message_text) ==
    IF message_text # NoText /\ HasPurchaseIntent(message_text)
    THEN "qualified" ELSE "new"

\* C12: when the backend call fails (timeout, rejected key, a response with
\* no choice in it, an exception while the client is built) run_agent raises
\* nothing and returns what it returns without a backend: the fixed default
\* reply and the rule-based stage of the message text.
C12_FailureFallsBack ==
    (agent.exc # None /\ agent.pc # "except") =>
        /\ agent.pc = "returned"
        /\ agent.reply = default_reply
        /\ agent.stage = ExpectedStage(agent.message_text)

\* run_agent has returned after each kind of failure.
C12_Witness ==
    /\ agent.pc = "returned"
    /\ agent.exc = "AuthenticationError"
    /\ agent.message_text = <<"c","o","s","t">>

\* C14: on every return path the reply run_agent returns is sanitized: only
\* ASCII characters; every U+2019/U+2018 of the text it sanitizes is there as
\* an apostrophe and every U+2014/U+2013 as a hyphen; every whitespace is a
\* single space between two other characters.
C14_ReplySanitized ==
    agent.pc = "returned" =>
        /\ \A i \in DOMAIN agent.reply :
              /\ agent.reply[i] \in DOMAIN CodePoints =>
                    CodePoints[agent.reply[i]] < 128
              /\ agent.reply[i] \in {" ", "U+0009", "U+000A"} =>
                    /\ agent.reply[i] = " "
                    /\ 1 < i /\ i < Len(agent.reply)
                    /\ agent.reply[i + 1] # " "
        /\ Count(agent.reply, "'") =
              Count(agent.raw, "'") + Count(agent.raw, "U+2019")
                  + Count(agent.raw, "U+2018")
        /\ Count(agent.reply, "-") =
              Count(agent.raw, "-") + Count(agent.raw, "U+2014")
                  + Count(agent.raw, "U+2013")

\* The backend's text with a smart quote, a dash and outer whitespace has
\* been returned.
C14_Witness ==
    /\ agent.pc = "returned"
    /\ Count(agent.raw, "U+2019") > 0 /\ Count(agent.raw, "U+2014") > 0
    /\ agent.raw[1] = " "

\* C15: the stage run_agent suggests is qualified exactly when the lowercased
\* text holds a purchase-intent keyword and new otherwise, never order or
\* closed, and new for an empty or missing text.
C15_RuleBasedStage ==
    agent.pc # "start" =>
        /\ agent.stage = ExpectedStage(agent.message_text)
        /\ agent.stage \in {"new", "qualified"}
        /\ agent.message_text \in {NoText, <<>>} => agent.stage = "new"

\* A text with a keyword in upper case was staged, and one without a text.
C15_Witness ==
    /\ agent.pc = "returned"
    /\ agent.message_text = <<"C","O","D">>
    /\ agent.stage = "qualified"

\* C19: the backend call is bounded: whatever the backend does, a call that
\* is pending ends, with a response or with an exception, so that run_agent
\* goes on to return.
C19_BackendCallBounded ==
    agent.pc = "awaiting" => ENABLED (AgentResponse \/ AgentBackendError)

\* ------------------------------------------- /simulate and the reply text
\* C13: the reply /simulate returns and stores as the outbound Message is
\* sanitized: for every inbound text it holds ASCII characters only.
C13_SimulateReplyIsAscii ==
    /\ \A r \in Slots : \A i \in DOMAIN resp[r].reply : IsAscii(resp[r].reply[i])
    /\ \A m \in DOMAIN messages :
          messages[m].direction = "out" =>
              \A i \in DOMAIN messages[m].text : IsAscii(messages[m].text[i])

\* C18: a /simulate request of an actor without tenant is rejected before any
\* resolution step: its only step answers with a 4xx error and leaves every
\* Contact, Deal and Message row as it was.
C18_NoTenantRejected ==
    [][ \A r \in Slots :
          (Acting(r) /\ ActorTenant(r) = NoTenant) =>
              /\ pc'[r] = "rejected"
              /\ resp'[r].status \in 400..499
              /\ contacts' = contacts /\ deals' = deals /\ messages' = messages
      ]_vars

\* The superadmin's request was rejected in a store that holds rows.
C18_Witness ==
    /\ \E r \in Slots : pc[r] = "rejected" /\ resp[r].status = 400
    /\ Len(contacts) > 0 /\ Len(deals) > 0 /\ Len(messages) > 0

\* C20: a Contact's contact_name is written at most once after creation: a
\* step writes it only when the stored name is empty and the request supplies
\* a non-empty one, and a non-empty stored name is never changed.
C20_NameBackfilledOnce ==
    [][ \A i \in DOMAIN contacts :
          /\ Truthy(contacts[i].contact_name) =>
                contacts'[i].contact_name = contacts[i].contact_name
          /\ contacts'[i].contact_name # contacts[i].contact_name =>
                \E r \in Slots :
                    /\ Acting(r) /\ loc[r].contact_id = i
                    /\ contacts'[i].contact_name = req[r].contact_name
                    /\ Truthy(req[r].contact_name) ]_vars

\* ===================================================================
\* app/meta_router.py: channel detection and routing key
\* ===================================================================
\* Python values of a decoded webhook payload, each with its type.  A dict
\* is a function from its keys; a str that stands where a list is expected
\* has one character, so that s[0] is s.
PyNone == [t |-> "None"]
PyStr(s) == [t |-> "str", v |-> s]
PyInt(n) == [t |-> "int", v |-> n]
PyList(items) == [t |-> "list", v |-> items]
PyDict(items) == [t |-> "dict", v |-> items]
EmptyDict == PyDict([k \in {} |-> PyNone])

\* An expression returns a value or raises.
Returns(value) == [ok |-> TRUE, v |-> value]
Raises(exc) == [ok |-> FALSE, exc |-> exc]

\* Python truthiness, negated.
Falsy(x) ==
    \/ x.t = "None"
    \/ x.t = "str" /\ x.v = ""
    \/ x.t = "int" /\ x.v = 0
    \/ x.t = "list" /\ x.v = <<>>
    \/ x.t = "dict" /\ DOMAIN x.v = {}

\* x or y
Or(x, y) == IF Falsy(x) THEN y ELSE x

\* x.get(key, default): only a dict has the method.
Get(x, key, default) ==
    IF x.t # "dict" THEN Raises("AttributeError")
    ELSE Returns(IF key \in DOMAIN x.v THEN x.v[key] ELSE default)

\* x[0]
Item0(x) ==
    CASE x.t = "list" -> IF x.v = <<>> THEN Raises("IndexError")
                         ELSE Returns(x.v[1])
      [] x.t = "str" -> IF x.v = "" THEN Raises("IndexError") ELSE Returns(x)
      [] x.t = "dict" -> Raises("KeyError")
      [] OTHER -> Raises("TypeError")

\* a == b for a value and a str literal
EqStr(a, literal) == a.t = "str" /\ a.v = literal

\* detect_channel() that does not know instagram.
DetectChannelWithoutInstagram(payload) ==
    LET obj == Get(payload, "object", PyStr(""))
    IN  IF ~obj.ok THEN obj
        ELSE IF EqStr(obj.v, "whatsapp_business_account") THEN Returns("whatsapp")
        ELSE IF EqStr(obj.v, "page") THEN Returns("messenger")
        ELSE Returns("unknown")

\* detect_channel(payload)
detect_channel(payload) ==
    LET obj == Get(payload, "object", PyStr(""))
    IN  IF ~obj.ok THEN obj
        ELSE IF EqStr(obj.v, "whatsapp_business_account") THEN Returns("whatsapp")
        ELSE IF EqStr(obj.v, "page") THEN Returns("messenger")
        ELSE IF EqStr(obj.v, "instagram") THEN Returns("instagram")
        ELSE Returns("unknown")

\* entry = (payload.get("entry") or [])[0]
FirstEntry(payload) ==
    LET entries == Get(payload, "entry", PyNone)
    IN  IF ~entries.ok THEN entries ELSE Item0(Or(entries.v, PyList(<<>>)))

\* The branch of the other channels: entry.get("id")
EntryId(payload) ==
    LET entry == FirstEntry(payload)
    IN  IF ~entry.ok THEN entry ELSE Get(entry.v, "id", PyNone)

\* The whatsapp branch:
\* entry, change = (entry.get("changes") or [])[0], value, meta, and
\* meta.get("phone_number_id")
PhoneNumberId(payload) ==
    LET entry == FirstEntry(payload)
        changes == Get(entry.v, "changes", PyNone)
        change == Item0(Or(changes.v, PyList(<<>>)))
        value == Get(change.v, "value", PyNone)
        meta == Get(Or(value.v, EmptyDict), "metadata", PyNone)
    IN  IF ~entry.ok THEN entry
        ELSE IF ~changes.ok THEN changes
        ELSE IF ~change.ok THEN change
        ELSE IF ~value.ok THEN value
        ELSE IF ~meta.ok THEN meta
        ELSE Get(Or(meta.v, EmptyDict), "phone_number_id", PyNone)

\* try: ... except Exception: return None
TryExcept(result) == IF result.ok THEN result ELSE Returns(PyNone)

\* The payload shapes, from the inside out: metadata, value, change, the
\* changes field, entry, the entry field, the object field; each level with
\* its well-formed shape, without the key, null, empty, and of another type.
MetadataShapes ==
    { PyDict([phone_number_id |-> PyStr("105500000000001")]), EmptyDict, PyNone }
ValueShapes ==
    { PyDict([metadata |-> m]) : m \in MetadataShapes } \cup { EmptyDict, PyNone }
ChangeShapes ==
    { PyDict([value |-> v]) : v \in ValueShapes } \cup { EmptyDict, PyNone }
ChangesShapes ==
    { PyList(<<c>>) : c \in ChangeShapes }
    \cup { PyList(<<>>), PyNone, PyStr("x") }
EntryShapes ==
    { PyDict([id |-> PyStr("17890000000000002"), changes |-> c]) :
          c \in ChangesShapes }
    \cup { PyDict([id |-> PyStr("17890000000000002")]),
           PyDict([changes |-> PyList(<<>>)]), EmptyDict, PyNone, PyStr("x") }
EntriesShapes ==
    { PyList(<<e>>) : e \in EntryShapes }
    \cup { PyList(<<>>), PyNone, PyStr("x"), PyInt(7), EmptyDict }
ObjectShapes ==
    { PyStr(o) : o \in {"whatsapp_business_account", "page", "instagram", "user"} }
    \cup { PyNone }
RouterPayloads ==
    { PyDict([object |-> o, entry |-> e]) : o \in ObjectShapes, e \in EntriesShapes }
    \cup { PyDict([entry |-> e]) : e \in EntriesShapes }
    \cup { PyDict([object |-> o]) : o \in ObjectShapes }
    \cup { EmptyDict, PyNone, PyList(<<>>), PyStr("x") }

\* extract_routing_key(payload) entered.
RouterCalls ==
    { [pc |-> "start", payload |-> p, ch |-> "", key |-> PyNone, exc |-> None] :
          p \in RouterPayloads }

\* ch = detect_channel(payload), before the try: what it raises leaves
\* extract_routing_key().
RouterDetect ==
    /\ router.pc = "start"
    /\ LET ch == detect_channel(router.payload)
       IN  router' = IF ch.ok THEN [router EXCEPT !.pc = "try", !.ch = ch.v]
                     ELSE [router EXCEPT !.pc = "raised", !.exc = ch.exc]
    /\ UNCHANGED <<simulateVars, agent, authVars>>

\* The try block and its except clause.
RouterExtract ==
    /\ router.pc = "try"
    /\ LET key == TryExcept(IF router.ch = "whatsapp"
                            THEN PhoneNumberId(router.payload)
                            ELSE EntryId(router.payload))
       IN  router' = [router EXCEPT !.pc = "returned", !.key = key.v]
    /\ UNCHANGED <<simulateVars, agent, authVars>>

RouterNext == RouterDetect \/ RouterExtract

\* One call of extract_routing_key(), for every payload shape.
RouterInit ==
    /\ contacts = <<>> /\ deals = <<>>
    /\ InitRequests
    /\ agent = NoCall
    /\ router \in RouterCalls
    /\ NoAuth

RouterSpec == RouterInit /\ [][RouterNext]_vars

\* --------------------------------------------- properties of the router
\* C16: extract_routing_key is total: for every payload shape, a payload
\* that is not a mapping included, it returns a routing key or None and
\* never raises.
C16_RoutingKeyTotal ==
    /\ router.pc # "raised"
    /\ router.pc = "returned" => router.key.t \in {"str", "None"}

\* A payload with every level as the channel's webhook sends it.
WellFormed(p) ==
    /\ p.t = "dict" /\ DOMAIN p.v = {"object", "entry"}
    /\ p.v.object.t = "str"
    /\ p.v.entry.t = "list" /\ p.v.entry.v # <<>>
    /\ LET entry == p.v.entry.v[1]
       IN  /\ entry.t = "dict" /\ DOMAIN entry.v = {"id", "changes"}
           /\ entry.v.changes.t = "list" /\ entry.v.changes.v # <<>>
           /\ LET change == entry.v.changes.v[1]
              IN  /\ change.t = "dict" /\ DOMAIN change.v = {"value"}
                  /\ change.v.value.t = "dict"
                  /\ DOMAIN change.v.value.v = {"metadata"}
                  /\ change.v.value.v.metadata.t = "dict"
                  /\ DOMAIN change.v.value.v.metadata.v = {"phone_number_id"}

\* C17: for a well-formed payload detect_channel maps the object field to
\* whatsapp, messenger or instagram and anything else to unknown, and
\* extract_routing_key returns entry[0].changes[0].value.metadata
\* .phone_number_id for whatsapp and entry[0].id for every other channel.
C17_ChannelAndRoutingKey ==
    WellFormed(router.payload) =>
        LET object == router.payload.v.object.v
            entry == router.payload.v.entry.v[1]
        IN  /\ router.pc # "raised"
            /\ router.pc = "try" =>
                  router.ch = CASE object = "whatsapp_business_account" -> "whatsapp"
                                [] object = "page" -> "messenger"
                                [] object = "instagram" -> "instagram"
                                [] OTHER -> "unknown"
            /\ router.pc = "returned" =>
                  router.key =
                      IF object = "whatsapp_business_account"
                      THEN entry.v.changes.v[1].v.value.v.metadata.v.phone_number_id
                      ELSE entry.v.id

\* The routing key of a well-formed instagram payload was returned.
C17_Witness ==
    /\ WellFormed(router.payload)
    /\ router.payload.v.object.v = "instagram"
    /\ router.pc = "returned"
    /\ router.ch = "instagram"

\* ------------------------------------ /simulate and the reply generator
\* C21: /simulate takes its stage from the reply generator: the stage it
\* gives a Deal it has just created is run_agent's suggested stage for the
\* message text (qualified for a text that holds cost, order, cod, ...).
C21_SimulateUsesRunAgent ==
    [][ \A r \in Slots :
          ( /\ pc[r] = "update_stage" /\ Acting(r)
            /\ "deal" \in hist[r].written ) =>
              deals'[loc[r].deal_id].stage = RuleStage(req[r].text) ]_vars

\* ------------------------------------------------ duplicate open deals
\* The store after two requests raced to create a Deal (see C1) and after a
\* later Deal of the contact was closed: an older open Deal, a newer open
\* Deal, and a closed Deal with the highest id.
DuplicateDeals ==
    << [tenant_id |-> 1, contact_id |-> 1, stage |-> "order", status |-> "open"],
       [tenant_id |-> 1, contact_id |-> 1, stage |-> "new", status |-> "open"],
       [tenant_id |-> 1, contact_id |-> 1, stage |-> "closed", status |-> "closed"] >>

InitDuplicates ==
    /\ contacts = <<SeedContact>> /\ deals = DuplicateDeals
    /\ InitRequests
    /\ agent = NoCall /\ router = NoCall
    /\ NoAuth

\* The same handler on that store.
DuplicatesSpec == InitDuplicates /\ [][Next]_vars

\* The open Deals of the contact the request in slot r holds.
OpenDealsOf(r) ==
    { d \in DOMAIN deals :
        /\ deals[d].tenant_id = req[r].tenant_id
        /\ deals[d].contact_id = loc[r].contact_id
        /\ deals[d].status = "open" }

\* C22: with more than one open Deal for a (tenant, contact), the lookup
\* resolves to the open Deal with the highest id, and the stage update that
\* follows changes that Deal only; no step changes a closed Deal.
C22_NewestOpenDealResolved ==
    [][ /\ \A r \in Slots :
              /\ ( /\ pc[r] = "find_deal" /\ Acting(r)
                   /\ Cardinality(OpenDealsOf(r)) > 1 ) =>
                     /\ loc'[r].deal_id \in OpenDealsOf(r)
                     /\ \A d \in OpenDealsOf(r) : d <= loc'[r].deal_id
                     /\ pc'[r] = "update_stage"
              /\ (pc[r] = "update_stage" /\ Acting(r)) =>
                     \A d \in DOMAIN deals :
                         d # loc[r].deal_id => deals'[d] = deals[d]
              /\ (Acting(r) /\ pc[r] # "update_stage") =>
                     \A d \in DOMAIN deals : deals'[d] = deals[d]
        /\ \A d \in DOMAIN deals :
              deals[d].status = "closed" => deals'[d] = deals[d] ]_vars

\* A request has resolved to the newer of two open Deals and updated it.
C22_Witness ==
    \E r \in Slots :
        /\ pc[r] = "store_outbound"
        /\ Cardinality(OpenDealsOf(r)) > 1
        /\ loc[r].deal_id = 2
        /\ deals[2].stage = "qualified" /\ deals[1].stage = "order"
        /\ deals[3].status = "closed"

\* C23: a request creates a Deal only when its lookup found no open Deal of
\* the contact, and the Deal it creates has stage new and status open; a
\* closed Deal is neither reopened nor reused: the request that finds only
\* closed Deals creates a fresh one and works on that.
C23_DealCreatedOnlyWithoutOpen ==
    [][ /\ \A r \in Slots :
              /\ (pc[r] = "find_deal" /\ Acting(r)) =>
                    (pc'[r] = "create_deal" <=> OpenDealsOf(r) = {})
              /\ (pc[r] = "create_deal" /\ Acting(r)) =>
                    /\ deals' = Append(deals,
                          [tenant_id |-> req[r].tenant_id,
                           contact_id |-> loc[r].contact_id,
                           stage |-> "new", status |-> "open"])
                    /\ loc'[r].deal_id = Len(deals) + 1
              /\ (pc'[r] \in {"update_stage", "store_outbound"}) =>
                    deals'[loc'[r].deal_id].status = "open"
        /\ Len(deals') # Len(deals) =>
              \E r \in Slots : pc[r] = "create_deal" /\ Acting(r)
        /\ \A d \in DOMAIN deals :
              deals[d].status = "closed" => deals'[d] = deals[d] ]_vars

\* The contact's only Deal was closed, and the next message has created a
\* fresh Deal beside it.
C23_Witness ==
    /\ Len(deals) = 2
    /\ deals[1].status = "closed" /\ deals[1].stage = "closed"
    /\ deals[2].status = "open" /\ deals[2].contact_id = deals[1].contact_id
    /\ \E r \in Slots : pc[r] = "store_outbound" /\ loc[r].deal_id = 2

\* C26: every Deal and every Message carries the tenant_id of the Contact
\* its contact_id refers to, and every Message the channel of that Contact,
\* which is the channel of the request that wrote it; no row refers to a
\* Contact of another tenant or to no Contact.
C26_RowsFollowTheirContact ==
    /\ \A d \in DOMAIN deals :
          /\ deals[d].contact_id \in DOMAIN contacts
          /\ deals[d].tenant_id = contacts[deals[d].contact_id].tenant_id
    /\ \A m \in DOMAIN messages :
          /\ messages[m].contact_id \in DOMAIN contacts
          /\ messages[m].tenant_id = contacts[messages[m].contact_id].tenant_id
          /\ messages[m].channel = contacts[messages[m].contact_id].channel
    /\ \A r \in Slots :
          "in" \in hist[r].written =>
              /\ messages[hist[r].in_id].channel = req[r].channel
              /\ messages[hist[r].in_id].tenant_id = req[r].tenant_id

\* Two tenants and two channels of one tenant have Deals and Messages.
C26_Witness ==
    /\ \E m1, m2 \in DOMAIN messages :
          /\ messages[m1].tenant_id # messages[m2].tenant_id
          /\ messages[m1].direction = "out" /\ messages[m2].direction = "out"
    /\ Len(deals) >= 2
    /\ \E d1, d2 \in DOMAIN deals : deals[d1].tenant_id # deals[d2].tenant_id

\* ===================================================================
\* app/main.py: /auth/register, /auth/verify-email, /auth/verify-phone
\* ===================================================================
\* /auth requests started in one behaviour.
MaxAuthReqs == 2

Emails == {"owner@acme.pk", "sales@acme.pk"}
Companies == {"Acme", "Bolt"}
Phone == "03001234567"
\* The values generate_otp_code() may return, and a caller may send.
Codes == {"123456", "654321"}

\* hash_password(plain) and verify_password(plain, hashed): the salt does
\* not change which plain text a hash accepts.
hash_password(plain) == <<"bcrypt", plain>>
verify_password(plain, hashed) == hashed = hash_password(plain)

\* RegisterIn, VerifyEmailIn, VerifyPhoneIn
RegisterIns ==
    { [op |-> "register", email |-> e, company_name |-> c, phone |-> Phone,
       code |-> ""] : e \in Emails, c \in Companies }
VerifyIns ==
    { [op |-> "verify_email", email |-> e, company_name |-> "", phone |-> "",
       code |-> c] : e \in Emails, c \in Codes }
    \cup { [op |-> "verify_phone", email |-> "", company_name |-> "",
            phone |-> Phone, code |-> c] : c \in Codes }

AuthFree(r) == apc[r] \in {"idle", "done", "failed", "rejected"}
AuthInFlight(r) == ~AuthFree(r)

\* db.query(User).filter(User.email == email)
UserIdsByEmail(rows, email) == { i \in DOMAIN rows : rows[i].email = email }

\* UniqueConstraint("name") on tenants and UniqueConstraint("email") on
\* users: whether the table accepts the new row.
uq_tenants_name(rows, row) == \A i \in DOMAIN rows : rows[i].name # row.name
uq_users_email(rows, row) == \A i \in DOMAIN rows : rows[i].email # row.email

\* Tenant(...), User(...), OTP(...) as register() builds them.  expired
\* stands for expires_at < now_utc_naive(): false when the row is written.
NewTenant(p) == [name |-> p.company_name, status |-> "pending"]
NewUser(p, tenant_id) ==
    [tenant_id |-> tenant_id, email |-> p.email, phone |-> p.phone,
     role |-> "tenant_admin", email_verified |-> FALSE,
     phone_verified |-> FALSE, is_active |-> TRUE]
NewOtp(user_id, kind, code) ==
    [user_id |-> user_id, kind |-> kind, code_hash |-> hash_password(code),
     expired |-> FALSE, used |-> FALSE]

\* An /auth request ends: the slot keeps the status only.
AuthEnd(r, state, status) ==
    /\ apc' = [apc EXCEPT ![r] = state]
    /\ aresp' = [aresp EXCEPT ![r] = status]
    /\ areq' = [areq EXCEPT ![r] = IdleAuth]
    /\ aloc' = [aloc EXCEPT ![r] = NoAuthIds]

\* register() up to the duplicate check.
RegisterStart(r) ==
    \E p \in RegisterIns :
        /\ AuthFree(r)
        /\ astarted < MaxAuthReqs
        /\ astarted' = astarted + 1
        /\ IF UserIdsByEmail(users, p.email) # {}
           THEN AuthEnd(r, "rejected", 400)
           ELSE /\ apc' = [apc EXCEPT ![r] = "create_tenant"]
                /\ areq' = [areq EXCEPT ![r] = p]
                /\ aloc' = [aloc EXCEPT ![r] = NoAuthIds]
                /\ aresp' = [aresp EXCEPT ![r] = 0]
        /\ UNCHANGED <<simulateVars, agent, router, tenants, users, otps,
                       consumed>>

\* Create tenant: db.add(tenant); db.commit(); db.refresh(tenant)
RegisterCreateTenant(r) ==
    /\ apc[r] = "create_tenant"
    /\ uq_tenants_name(tenants, NewTenant(areq[r]))
    /\ tenants' = Append(tenants, NewTenant(areq[r]))
    /\ aloc' = [aloc EXCEPT ![r].tenant_id = Len(tenants) + 1]
    /\ apc' = [apc EXCEPT ![r] = "create_user"]
    /\ UNCHANGED <<simulateVars, agent, router, users, otps, areq, aresp,
                   astarted, consumed>>

\* The same commit when the company name is taken: IntegrityError, which
\* nothing catches; the request ends with 500.
RegisterTenantConflict(r) ==
    /\ apc[r] = "create_tenant"
    /\ ~uq_tenants_name(tenants, NewTenant(areq[r]))
    /\ AuthEnd(r, "failed", 500)
    /\ UNCHANGED <<simulateVars, agent, router, tenants, users, otps,
                   astarted, consumed>>

\* Create user as tenant_admin: db.add(user); db.commit(); db.refresh(user)
RegisterCreateUser(r) ==
    /\ apc[r] = "create_user"
    /\ uq_users_email(users, NewUser(areq[r], aloc[r].tenant_id))
    /\ users' = Append(users, NewUser(areq[r], aloc[r].tenant_id))
    /\ aloc' = [aloc EXCEPT ![r].user_id = Len(users) + 1]
    /\ apc' = [apc EXCEPT ![r] = "create_otps"]
    /\ UNCHANGED <<simulateVars, agent, router, tenants, otps, areq, aresp,
                   astarted, consumed>>

\* The same commit when another request has registered the email since the
\* duplicate check: IntegrityError, HTTP 500; the tenant row was committed
\* before and stays.
RegisterUserConflict(r) ==
    /\ apc[r] = "create_user"
    /\ ~uq_users_email(users, NewUser(areq[r], aloc[r].tenant_id))
    /\ AuthEnd(r, "failed", 500)
    /\ UNCHANGED <<simulateVars, agent, router, tenants, users, otps,
                   astarted, consumed>>

\* Create OTPs: db.add_all([otp_email, otp_phone]); db.commit(); return.
RegisterCreateOtps(r) ==
    /\ apc[r] = "create_otps"
    /\ \E email_code \in Codes, phone_code \in Codes :
          otps' = otps \o << NewOtp(aloc[r].user_id, "email", email_code),
                             NewOtp(aloc[r].user_id, "phone", phone_code) >>
    /\ consumed' = consumed \o <<0, 0>>
    /\ AuthEnd(r, "done", 200)
    /\ UNCHANGED <<simulateVars, agent, router, tenants, users, astarted>>

\* db.query(OTP).join(User).filter(User.email or User.phone == ...)
\*   .filter(OTP.kind == kind).filter(OTP.used == False)
UnusedOtpIds(p) ==
    { o \in DOMAIN otps :
        /\ ~otps[o].used
        /\ IF p.op = "verify_email"
           THEN otps[o].kind = "email" /\ users[otps[o].user_id].email = p.email
           ELSE otps[o].kind = "phone" /\ users[otps[o].user_id].phone = p.phone }

\* verify_email() and verify_phone() up to the test of the code: the latest
\* unused OTP is loaded; none, expired and wrong code answer 400.
VerifyStart(r) ==
    \E p \in VerifyIns :
        LET otp == Newest(UnusedOtpIds(p))
        IN  /\ AuthFree(r)
            /\ astarted < MaxAuthReqs
            /\ astarted' = astarted + 1
            /\ IF \/ otp = 0
                  \/ otps[otp].expired
                  \/ ~verify_password(p.code, otps[otp].code_hash)
               THEN AuthEnd(r, "rejected", 400)
               ELSE /\ apc' = [apc EXCEPT ![r] = "verify_commit"]
                    /\ areq' = [areq EXCEPT ![r] = p]
                    /\ aloc' = [aloc EXCEPT ![r] =
                                   [NoAuthIds EXCEPT !.otp_id = otp,
                                                     !.user_id = otps[otp].user_id]]
                    /\ aresp' = [aresp EXCEPT ![r] = 0]
            /\ UNCHANGED <<simulateVars, agent, router, tenants, users, otps,
                           consumed>>

\* otp.used = True; user.email_verified (phone_verified) = True;
\* db.commit(); return.  The UPDATE of the OTP row carries no condition on
\* used.
VerifyCommit(r) ==
    /\ apc[r] = "verify_commit"
    /\ otps' = [otps EXCEPT ![aloc[r].otp_id].used = TRUE]
    /\ users' = IF areq[r].op = "verify_email"
                THEN [users EXCEPT ![aloc[r].user_id].email_verified = TRUE]
                ELSE [users EXCEPT ![aloc[r].user_id].phone_verified = TRUE]
    /\ consumed' = [consumed EXCEPT ![aloc[r].otp_id] = @ + 1]
    /\ AuthEnd(r, "done", 200)
    /\ UNCHANGED <<simulateVars, agent, router, tenants, astarted>>

\* Time passes expires_at of an OTP.
OtpExpires ==
    /\ \E o \in DOMAIN otps :
          /\ ~otps[o].expired
          /\ otps' = [otps EXCEPT ![o].expired = TRUE]
    /\ UNCHANGED <<simulateVars, agent, router, tenants, users, apc, areq,
                   aloc, aresp, astarted, consumed>>

AuthNext ==
    \/ \E r \in Slots :
          \/ RegisterStart(r)
          \/ RegisterCreateTenant(r)
          \/ RegisterTenantConflict(r)
          \/ RegisterCreateUser(r)
          \/ RegisterUserConflict(r)
          \/ RegisterCreateOtps(r)
          \/ VerifyStart(r)
          \/ VerifyCommit(r)
    \/ OtpExpires

\* One company has registered: its tenant, its tenant_admin and the two
\* OTPs of the registration.
RegisteredTenants == << [name |-> "Acme", status |-> "pending"] >>
RegisteredUsers ==
    << Superadmin,
       [tenant_id |-> 1, email |-> "owner@acme.pk", phone |-> Phone,
        role |-> "tenant_admin", email_verified |-> FALSE,
        phone_verified |-> FALSE, is_active |-> TRUE] >>
RegisteredOtps ==
    << NewOtp(2, "email", "123456"), NewOtp(2, "phone", "654321") >>

\* The /auth handlers on a database after start-up, or after one
\* registration.
AuthInit ==
    /\ contacts = <<>> /\ deals = <<>>
    /\ InitRequests
    /\ agent = NoCall /\ router = NoCall
    /\ NoAuthRequests
    /\ \/ tenants = <<>> /\ users = <<Superadmin>> /\ otps = <<>>
          /\ consumed = <<>>
       \/ tenants = RegisteredTenants /\ users = RegisteredUsers
          /\ otps = RegisteredOtps /\ consumed = <<0, 0>>

AuthSpec == AuthInit /\ [][AuthNext]_vars

\* ------------------------------------------ properties of the /auth handlers
\* The OTP rows of user u of one kind.
OtpsOf(u, kind) ==
    { o \in DOMAIN otps : otps[o].user_id = u /\ otps[o].kind = kind }

\* C24: registration is all-or-nothing under every interleaving: once no
\* register request is in flight, every Tenant in the store has a
\* tenant_admin User (a failed request has left no Tenant behind) and every
\* registered User has one email OTP and one phone OTP.
C24_RegistrationAllOrNothing ==
    (\A r \in Slots : AuthFree(r)) =>
        /\ \A t \in DOMAIN tenants :
              \E u \in DOMAIN users :
                  users[u].tenant_id = t /\ users[u].role = "tenant_admin"
        /\ \A u \in DOMAIN users :
              users[u].tenant_id # NoTenant =>
                  /\ Cardinality(OtpsOf(u, "email")) = 1
                  /\ Cardinality(OtpsOf(u, "phone")) = 1

\* C25: an OTP is single-use: used never goes back to false, no OTP lets
\* more than one verify request succeed, concurrent ones included, and a
\* verify request that is refused changes no OTP and no user.
C25_OtpSingleUse ==
    [][ /\ \A o \in DOMAIN otps : otps[o].used => otps'[o].used
        /\ \A o \in DOMAIN consumed' : consumed'[o] <= 1
        /\ \A r \in Slots :
              (apc'[r] = "rejected" /\ apc'[r] # apc[r]) =>
                  otps' = otps /\ users' = users ]_vars

====
